---- MODULE Spec2Model ----
(***************************************************************************)
(* Model of common-rs.  This part covers PreallocatedVec                   *)
(* (src/util/lang_util/prealloc_vec.rs): a Vec<T> `items` plus a cursor    *)
(* `back_index`, mutated through &self by way of an UnsafeCell.            *)
(*                                                                         *)
(* Elements are small integers; the creation_fn of the model is `|| 0`,    *)
(* as in the repository's test.  An absent Option is <<>>, Some(x) is      *)
(* <<x>>.  Indices are 0-based as in the source; items[i + 1] is the slot  *)
(* the source calls items[i].                                              *)
(***************************************************************************)
EXTENDS Integers, Sequences, FiniteSets, TLC

\* ---------------------------------------------------------------- bounds
\* Largest physical length of `items` the model explores.
MaxLen == 3
\* Largest element value; elements are 0..MaxVal.
MaxVal == 2

Elem == 0..MaxVal

\* Width of usize in the model (64 in the source's builds).
UsizeBits == 3
\* Largest capacity an AveragingBuffer is created with.
MaxAvgCap == 3
\* Largest number of pushes to an AveragingBuffer.
MaxAvgPushes == 4
\* Elements of the HashSets are 1..MaxKey.
MaxKey == 3
\* Bounds of the inclusive ranges are 0..MaxBound.
MaxBound == 3
\* Largest physical length the writer of the shared-access specification makes.
MaxShLen == 2
\* Keys of the VecMap are 0..MaxMapKey, its values 1..MaxMapVal.
MaxMapKey == 2
MaxMapVal == 2
\* Largest number of entries of the VecMap.
MaxMapLen == 3
\* Threads of the racing specification.
Threads == {1, 2}

VARIABLES
    items,       \* State::items, the physical store (a sequence of Elem)
    cap,         \* the allocated capacity of State::items (Vec::capacity)
    back_index,  \* State::back_index, the logical length
    made,        \* how many times the last call invoked creation_fn
    run,         \* history: the pushes made since construction / the last clear
    peak,        \* history: the largest len() reached so far
    cut,         \* history: set_capacity went below `peak` after it was reached
    call,        \* history: the last call, what its callback returned, its result
    tainted,     \* history: indices of the slots last written by an aborted callback
    pc,          \* racing threads: position of each thread inside push
    loc,         \* racing threads: the locals of each thread's push
    sh,          \* one writer and a reader: their positions, locals and results
    ab,          \* an AveragingBuffer: its buffer, capacity and sum
    abh,         \* history: the values pushed to `ab`, whether its sum saturated
    io,          \* the arguments and the result of a call of a library function
    elements,    \* VecMap::elements, a sequence of <<key, value>>
    vmh          \* history: the last call on the VecMap and a reference map

vars == <<items, cap, back_index, made, run, peak, cut, call, tainted, pc, loc, sh,
          ab, abh, io, elements, vmh>>
pvVars == <<items, cap, back_index, made>>
histVars == <<run, peak, cut, call, tainted>>
raceVars == <<pc, loc, sh>>
mapVars == <<elements, vmh>>
libVars == <<ab, abh, io, elements, vmh>>

\* --------------------------------------------------------------- helpers
None == <<>>
Some(x) == <<x>>

Max(a, b) == IF a >= b THEN a ELSE b
Min(a, b) == IF a <= b THEN a ELSE b

\* (): what every operation of PreallocatedVec returns.
Unit == "unit"

\* The record kept of a call: its name, what its callback returned (TRUE when
\* it takes none), its numeric argument, a note on the case it ran into, and
\* the value it returned.
CallOf(name, okFlag, argument, note) ==
    [op |-> name, ok |-> okFlag, arg |-> argument, how |-> note, ret |-> Unit]

\* creation_fn: the factory of blank elements (`|| 0usize` in test_vector).
creation_fn == 0

\* Vec<T>: smallest non-zero capacity an amortized growth allocates
\* (elements of at most 1024 bytes).
MinNonZeroCap == 4

\* Vec growth: capacity after making room for `required` elements.
GrowAmortized(c, required) == Max(MinNonZeroCap, Max(2 * c, required))

\* Vec::push(v) on (s, c): the new sequence and the new capacity.
VecPush(s, c, v) ==
    [items |-> Append(s, v),
     cap   |-> IF Len(s) = c THEN GrowAmortized(c, Len(s) + 1) ELSE c]

\* resize_with that never truncates.
VecResizeWith_no_truncate(s, c, n) ==
    IF n > Len(s)
    THEN [items |-> s \o [i \in 1..(n - Len(s)) |-> creation_fn],
          cap   |-> IF n > c THEN GrowAmortized(c, n) ELSE c,
          made  |-> n - Len(s)]
    ELSE [items |-> s,
          cap   |-> c,
          made  |-> 0]

\* Vec::resize_with(n, creation_fn) on (s, c).
VecResizeWith(s, c, n) ==
    IF n > Len(s)
    THEN [items |-> s \o [i \in 1..(n - Len(s)) |-> creation_fn],
          cap   |-> IF n > c THEN GrowAmortized(c, n) ELSE c,
          made  |-> n - Len(s)]
    ELSE [items |-> SubSeq(s, 1, n),
          cap   |-> c,
          made  |-> 0]

\* Vec::get(i) / Vec::get_mut(i): the slot at 0-based index i, if any.
VecGet(s, i) == IF i >= 0 /\ i < Len(s) THEN Some(s[i + 1]) ELSE None

\* ------------------------------------------------------------- observers
capacity == cap

\* raw_slice that shows the live elements only.
raw_slice_live == SubSeq(items, 1, back_index)

raw_slice == items

len == back_index

\* get with the bounds check made against the physical length.
get_physical(index) == IF index < Len(items) THEN VecGet(items, index) ELSE None

get(index) == IF index < back_index THEN VecGet(items, index) ELSE None

\* get_mut with an inclusive bounds check.
get_mut_inclusive(index) ==
    IF index <= back_index THEN VecGet(items, index) ELSE None

get_mut(index) == IF index < back_index THEN VecGet(items, index) ELSE None

\* last() that reads the slot before the cursor.
last_logical == IF len = 0 THEN None ELSE VecGet(items, len - 1)

last == IF Len(items) = 0 THEN None ELSE VecGet(items, Len(items) - 1)

last_mut == IF Len(items) = 0 THEN None ELSE VecGet(items, Len(items) - 1)

last_index == IF len = 0 THEN None ELSE Some(len - 1)

\* ---------------------------------------------------------- construction
\* with_capacity that allocates the store and does not fill it.
with_capacity_alloc_only(c) ==
    /\ items = <<>>
    /\ cap = c
    /\ made = 0
    /\ back_index = 0

\* with_capacity(c, creation_fn): Vec::with_capacity(c), back_index 0, then
\* set_capacity(c).
with_capacity(c) ==
    LET r == VecResizeWith(<<>>, c, c)
    IN  /\ items = r.items
        /\ cap = r.cap
        /\ made = r.made
        /\ back_index = Min(0, c)

\* The writer and the reader of the shared-access specification, not
\* started; the reader will ask for index i.
ShIdle(i) ==
    [wpc |-> "idle", wn |-> 0,
     ri |-> i, rpc |-> "idle", ret |-> None,
     seen |-> 0, phys |-> 0, lived |-> {}]

\* Keys and values of the VecMap.  K is any PartialEq type; the key KeyNaN
\* stands for one that is not equal to itself, as f64::NAN.
MapKeys == 0..MaxMapKey
MapVals == 1..MaxMapVal
KeyNaN == 0

\* VecMap::new() / VecMap::default(), nothing called yet; `ref` is the
\* finite map the calls describe: the value of the last insert of each key
\* that no remove of the key followed.
MapIdle ==
    /\ elements = <<>>
    /\ vmh = [op |-> "new", key |-> 0, ret |-> None, was |-> None,
              before |-> <<>>, ref |-> [k \in MapKeys |-> None]]

\* The other components of the crate, not in use.
LibIdle ==
    /\ MapIdle
    /\ ab = [buffer |-> <<>>, capacity |-> 0, sum |-> 0]
    /\ abh = [pushed |-> <<>>, sat |-> FALSE]
    /\ io = [op |-> "none"]

Init ==
    /\ LibIdle
    /\ \E c \in 0..MaxLen :
          /\ with_capacity(c)
          /\ call = CallOf("with_capacity", TRUE, c, "plain")
    /\ run = [kind |-> "fresh", vals |-> <<>>]
    /\ peak = 0
    /\ cut = FALSE
    /\ tainted = {}
    /\ pc = [t \in Threads |-> "idle"]
    /\ loc = [t \in Threads |-> [val |-> 0, idx |-> 0, slot |-> FALSE]]
    /\ sh = ShIdle(0)

\* ---------------------------------------------------------------- history
Called(name, okFlag, argument, note) ==
    call' = CallOf(name, okFlag, argument, note)

\* The largest len() so far, and whether the store was cut below it since.
NotePeak(newLen) ==
    IF newLen >= peak /\ newLen > 0
    THEN peak' = newLen /\ cut' = FALSE
    ELSE UNCHANGED <<peak, cut>>

\* -------------------------------------------------------------- mutation
\* What each operation leaves in the history variables.
push_hist(new_item) ==
    /\ run' = IF run.kind = "other" THEN run
              ELSE [run EXCEPT !.vals = Append(@, new_item)]
    /\ NotePeak(back_index + 1)
    /\ Called("push", TRUE, new_item,
              IF back_index \in tainted THEN "tainted" ELSE "plain")
    /\ tainted' = tainted \ {back_index}
    /\ UNCHANGED <<raceVars, libVars>>

\* push that moves the cursor before it looks up the slot.
push_incr_first(new_item) ==
    /\ made' = 0
    /\ back_index < MaxLen
    /\ IF VecGet(items, back_index + 1) # None
       THEN /\ items' = [items EXCEPT ![back_index + 2] = new_item]
            /\ cap' = cap
       ELSE LET r == VecPush(items, cap, new_item)
            IN  items' = r.items /\ cap' = r.cap
    /\ back_index' = back_index + 1
    /\ push_hist(new_item)

\* push that always appends instead of reusing the slot at back_index.
push_always_append(new_item) ==
    /\ made' = 0
    /\ Len(items) < MaxLen
    /\ LET r == VecPush(items, cap, new_item)
       IN  items' = r.items /\ cap' = r.cap
    /\ back_index' = back_index + 1
    /\ push_hist(new_item)

\* push that, when the store has to grow, puts the new element in front of
\* the existing ones.
push_state_front(new_item) ==
    /\ back_index < MaxLen
    /\ IF VecGet(items, back_index) # None
       THEN /\ items' = [items EXCEPT ![back_index + 1] = new_item]
            /\ cap' = cap
       ELSE LET r == VecPush(items, cap, new_item)
            IN  items' = <<new_item>> \o items /\ cap' = r.cap
    /\ back_index' = back_index + 1

\* The body of push(new_item), lines 139-148.
push_state(new_item) ==
    /\ back_index < MaxLen
    /\ IF VecGet(items, back_index) # None
       THEN /\ items' = [items EXCEPT ![back_index + 1] = new_item]
            /\ cap' = cap
       ELSE LET r == VecPush(items, cap, new_item)
            IN  items' = r.items /\ cap' = r.cap
    /\ back_index' = back_index + 1

\* push that returns right after reusing a slot, the cursor left behind.
push_reuse_no_incr(new_item) ==
    /\ made' = 0
    /\ back_index < MaxLen
    /\ IF VecGet(items, back_index) # None
       THEN /\ items' = [items EXCEPT ![back_index + 1] = new_item]
            /\ cap' = cap
            /\ back_index' = back_index
       ELSE LET r == VecPush(items, cap, new_item)
            IN  items' = r.items /\ cap' = r.cap /\ back_index' = back_index + 1
    /\ push_hist(new_item)

\* push that moves the cursor over an existing slot without writing it.
push_reuse_no_write(new_item) ==
    /\ made' = 0
    /\ back_index < MaxLen
    /\ IF VecGet(items, back_index) # None
       THEN UNCHANGED <<items, cap>>
       ELSE LET r == VecPush(items, cap, new_item)
            IN  items' = r.items /\ cap' = r.cap
    /\ back_index' = back_index + 1
    /\ push_hist(new_item)

\* push never calls the factory: it stores the element it is given.
push_made == made' = 0

\* push(new_item)
push(new_item) ==
    /\ push_state(new_item)
    /\ push_made
    /\ push_hist(new_item)

\* The callbacks handed to push_prealloc: w is the value the callback writes
\* into the element it is given (-1: it writes nothing), ok is what it returns.
CopyFns == [w : Elem \cup {-1}, ok : BOOLEAN]

copy_fn(f, item) == IF f.w = -1 THEN item ELSE f.w

push_prealloc_hist(f) ==
    /\ run' = IF f.ok THEN [kind |-> "other", vals |-> <<>>] ELSE run
    /\ IF f.ok THEN NotePeak(back_index + 1) ELSE UNCHANGED <<peak, cut>>
    /\ Called("push_prealloc", f.ok, 0,
              IF back_index \in tainted THEN "tainted" ELSE "plain")
    /\ tainted' = IF VecGet(items, back_index) # None /\ f.w # -1
                  THEN (IF f.ok THEN tainted \ {back_index}
                                ELSE tainted \cup {back_index})
                  ELSE tainted
    /\ UNCHANGED <<raceVars, libVars>>

\* push_prealloc whose overflow path stores the blank element it created,
\* not the element the callback worked on.
push_prealloc_state_blank(f) ==
    /\ back_index < MaxLen
    /\ IF VecGet(items, back_index) # None
       THEN /\ items' = [items EXCEPT ![back_index + 1] = copy_fn(f, @)]
            /\ cap' = cap
            /\ back_index' = IF f.ok THEN back_index + 1 ELSE back_index
       ELSE IF f.ok
            THEN LET r == VecPush(items, cap, creation_fn)
                 IN  /\ items' = r.items
                     /\ cap' = r.cap
                     /\ back_index' = back_index + 1
            ELSE UNCHANGED <<items, cap, back_index>>

\* The body of push_prealloc(copy_fn), lines 155-172.
push_prealloc_state(f) ==
    /\ back_index < MaxLen
    /\ IF VecGet(items, back_index) # None
       THEN /\ items' = [items EXCEPT ![back_index + 1] = copy_fn(f, @)]
            /\ cap' = cap
            /\ back_index' = IF f.ok THEN back_index + 1 ELSE back_index
       ELSE IF f.ok
            THEN LET r == VecPush(items, cap, copy_fn(f, creation_fn))
                 IN  /\ items' = r.items
                     /\ cap' = r.cap
                     /\ back_index' = back_index + 1
            ELSE UNCHANGED <<items, cap, back_index>>

\* push_prealloc that moves the cursor whatever the callback returned.
push_prealloc_no_abort(f) ==
    /\ made' = IF VecGet(items, back_index) # None THEN 0 ELSE 1
    /\ back_index < MaxLen
    /\ IF VecGet(items, back_index) # None
       THEN /\ items' = [items EXCEPT ![back_index + 1] = copy_fn(f, @)]
            /\ cap' = cap
       ELSE LET r == VecPush(items, cap, copy_fn(f, creation_fn))
            IN  items' = r.items /\ cap' = r.cap
    /\ back_index' = back_index + 1
    /\ push_prealloc_hist(f)

\* push_prealloc whose overflow path stores the new element before it asks
\* the callback.
push_prealloc_push_first(f) ==
    /\ made' = IF VecGet(items, back_index) # None THEN 0 ELSE 1
    /\ back_index < MaxLen
    /\ IF VecGet(items, back_index) # None
       THEN /\ items' = [items EXCEPT ![back_index + 1] = copy_fn(f, @)]
            /\ cap' = cap
       ELSE LET r == VecPush(items, cap, copy_fn(f, creation_fn))
            IN  items' = r.items /\ cap' = r.cap
    /\ back_index' = IF f.ok THEN back_index + 1 ELSE back_index
    /\ push_prealloc_hist(f)

\* push_prealloc that creates a blank element before it looks the slot up.
push_prealloc_made_eager == made' = 1

\* push_prealloc calls the factory once, at line 164, when there is no slot
\* at back_index.
push_prealloc_made == made' = IF VecGet(items, back_index) # None THEN 0 ELSE 1

\* push_prealloc(copy_fn)
push_prealloc(f) ==
    /\ push_prealloc_state(f)
    /\ push_prealloc_made
    /\ push_prealloc_hist(f)

clear_hist ==
    /\ run' = [kind |-> "cleared", vals |-> <<>>]
    /\ Called("clear", TRUE, 0, "plain")
    /\ UNCHANGED <<peak, cut, tainted>>
    /\ UNCHANGED <<raceVars, libVars>>

\* clear that empties the store instead of moving the cursor only.
clear_truncating ==
    /\ made' = 0
    /\ back_index' = 0
    /\ items' = <<>>
    /\ cap' = cap
    /\ clear_hist

\* clear()
clear ==
    /\ made' = 0
    /\ back_index' = 0
    /\ UNCHANGED <<items, cap>>
    /\ clear_hist

set_capacity_hist(n) ==
    /\ run' = [kind |-> "other", vals |-> <<>>]
    /\ cut' = (cut \/ n < peak)
    /\ Called("set_capacity", TRUE, n,
              IF n < back_index THEN "dropped"
              ELSE IF n < Len(items) THEN "shrunk"
              ELSE IF n > Len(items) THEN "grown" ELSE "same")
    /\ tainted' = {i \in tainted : i < n}
    /\ UNCHANGED peak
    /\ UNCHANGED <<raceVars, libVars>>

\* set_capacity that resizes the store and leaves the cursor alone.
set_capacity_no_clamp(n) ==
    /\ LET r == VecResizeWith(items, cap, n)
       IN  items' = r.items /\ cap' = r.cap /\ made' = r.made
    /\ back_index' = back_index
    /\ set_capacity_hist(n)

\* set_capacity that puts the new slots in front of the existing ones.
set_capacity_prepend(n) ==
    /\ LET r == VecResizeWith(items, cap, n)
       IN  /\ items' = IF n > Len(items)
                       THEN [i \in 1..(n - Len(items)) |-> creation_fn] \o items
                       ELSE r.items
           /\ cap' = r.cap
           /\ made' = r.made
    /\ back_index' = Min(back_index, n)
    /\ set_capacity_hist(n)

\* set_capacity(capacity)
set_capacity(n) ==
    /\ LET r == VecResizeWith(items, cap, n)
       IN  items' = r.items /\ cap' = r.cap /\ made' = r.made
    /\ back_index' = Min(back_index, n)
    /\ set_capacity_hist(n)

Next ==
    \/ \E v \in Elem : push(v)
    \/ \E f \in CopyFns : push_prealloc(f)
    \/ clear
    \/ \E n \in 0..MaxLen : set_capacity(n)

Spec == Init /\ [][Next]_vars

\* ------------------------------------------------- two unsynchronised pushes
\* PreallocatedVec is Send + Sync and push takes &self: two threads may be
\* inside push at once.  A push is three steps: the lookup
\* items.get_mut(back_index), the slot write or Vec::push, and
\* back_index += 1.  The unsynchronised increment is a data race: it either
\* adds one to the cursor it finds, or stores the value the thread read at
\* its lookup plus one.

\* Thread t enters push(v) and evaluates items.get_mut(state.back_index).
RLookup(t, v) ==
    /\ pc[t] = "idle"
    /\ loc' = [loc EXCEPT ![t] = [val  |-> v,
                                  idx  |-> back_index,
                                  slot |-> VecGet(items, back_index) # None]]
    /\ pc' = [pc EXCEPT ![t] = "write"]
    /\ UNCHANGED <<pvVars, sh, histVars, libVars>>

\* The slot write of a thread that looks the cursor up again when it writes.
RWrite_relookup(t) ==
    /\ pc[t] = "write"
    /\ IF loc[t].slot /\ VecGet(items, back_index) # None
       THEN /\ items' = [items EXCEPT ![back_index + 1] = loc[t].val]
            /\ cap' = cap
       ELSE LET r == VecPush(items, cap, loc[t].val)
            IN  items' = r.items /\ cap' = r.cap
    /\ pc' = [pc EXCEPT ![t] = "incr"]
    /\ UNCHANGED <<back_index, made, loc, sh, histVars, libVars>>

\* Thread t runs `*item = new_item` or `state.items.push(new_item)`.
RWrite(t) ==
    /\ pc[t] = "write"
    /\ IF loc[t].slot
       THEN /\ items' = [items EXCEPT ![loc[t].idx + 1] = loc[t].val]
            /\ cap' = cap
       ELSE LET r == VecPush(items, cap, loc[t].val)
            IN  items' = r.items /\ cap' = r.cap
    /\ pc' = [pc EXCEPT ![t] = "incr"]
    /\ UNCHANGED <<back_index, made, loc, sh, histVars, libVars>>

\* Thread t runs `state.back_index += 1`.
RIncr(t) ==
    /\ pc[t] = "incr"
    /\ \/ back_index' = back_index + 1
       \/ back_index' = loc[t].idx + 1
    /\ pc' = [pc EXCEPT ![t] = "done"]
    /\ UNCHANGED <<items, cap, made, loc, sh, histVars, libVars>>

NextRace ==
    \/ \E t \in Threads : \E v \in Elem : RLookup(t, v)
    \/ \E t \in Threads : RWrite(t)
    \/ \E t \in Threads : RIncr(t)

SpecRace == Init /\ [][NextRace]_vars

\* ------------------------------------------- one writer, concurrent readers
\* One thread calls push, push_prealloc, clear and set_capacity, one after
\* the other; a reader thread calls len() and get(ri) through the same
\* &PreallocatedVec.  Nothing synchronises them, so the reader's steps fall
\* anywhere between the writer's: between the slot write and
\* `back_index += 1` of a push, between resize_with and the clamp of
\* set_capacity, and the writer's steps fall between the reader's test
\* `index < state.back_index` and its `state.items.get(index)`.

\* The element that is live at index i of the store its with cursor bi.
LiveAt(its, bi, i) == IF i < bi /\ i < Len(its) THEN {its[i + 1]} ELSE {}

\* History: the elements that have been live at the reader's index.
NoteLived(next) ==
    [next EXCEPT !.lived = @ \cup LiveAt(items', back_index', next.ri)]

InitShared ==
    /\ LibIdle
    /\ \E c \in 0..MaxShLen :
          /\ with_capacity(c)
          /\ call = CallOf("with_capacity", TRUE, c, "plain")
    /\ run = [kind |-> "fresh", vals |-> <<>>]
    /\ peak = 0
    /\ cut = FALSE
    /\ tainted = {}
    /\ pc = [t \in Threads |-> "idle"]
    /\ loc = [t \in Threads |-> [val |-> 0, idx |-> 0, slot |-> FALSE]]
    /\ \E i \in 0..(MaxShLen - 1) : sh = ShIdle(i)

\* The writer enters push(new_item): the lookup and the slot write or
\* Vec::push, lines 141-146.
WPushWrite(new_item) ==
    /\ made' = 0
    /\ sh.wpc = "idle"
    /\ back_index < MaxShLen
    /\ IF VecGet(items, back_index) # None
       THEN /\ items' = [items EXCEPT ![back_index + 1] = new_item]
            /\ cap' = cap
       ELSE LET r == VecPush(items, cap, new_item)
            IN  items' = r.items /\ cap' = r.cap
    /\ back_index' = back_index
    /\ sh' = NoteLived([sh EXCEPT !.wpc = "incr"])
    /\ UNCHANGED <<histVars, pc, loc, libVars>>

\* The writer enters push_prealloc(copy_fn): the callback works on the slot
\* in place, or on a new element that is pushed when it succeeds, lines
\* 157-170; an aborted call returns.
WPreallocWrite(f) ==
    /\ made' = IF VecGet(items, back_index) # None THEN 0 ELSE 1
    /\ sh.wpc = "idle"
    /\ back_index < MaxShLen
    /\ IF VecGet(items, back_index) # None
       THEN /\ items' = [items EXCEPT ![back_index + 1] = copy_fn(f, @)]
            /\ cap' = cap
       ELSE IF f.ok
            THEN LET r == VecPush(items, cap, copy_fn(f, creation_fn))
                 IN  items' = r.items /\ cap' = r.cap
            ELSE UNCHANGED <<items, cap>>
    /\ back_index' = back_index
    /\ sh' = NoteLived([sh EXCEPT !.wpc = IF f.ok THEN "incr" ELSE "idle"])
    /\ UNCHANGED <<histVars, pc, loc, libVars>>

\* The writer runs `state.back_index += 1`, lines 147 and 171.
WIncr ==
    /\ made' = made
    /\ sh.wpc = "incr"
    /\ back_index' = back_index + 1
    /\ UNCHANGED <<items, cap>>
    /\ sh' = NoteLived([sh EXCEPT !.wpc = "idle"])
    /\ UNCHANGED <<histVars, pc, loc, libVars>>

\* The writer calls clear(): one store to back_index.
WClear ==
    /\ made' = 0
    /\ sh.wpc = "idle"
    /\ back_index' = 0
    /\ UNCHANGED <<items, cap>>
    /\ sh' = NoteLived(sh)
    /\ UNCHANGED <<histVars, pc, loc, libVars>>

\* The writer enters set_capacity(n): resize_with, line 57.
WResize(n) ==
    /\ sh.wpc = "idle"
    /\ LET r == VecResizeWith(items, cap, n)
       IN  items' = r.items /\ cap' = r.cap /\ made' = r.made
    /\ back_index' = back_index
    /\ sh' = NoteLived([sh EXCEPT !.wpc = "clamp", !.wn = n])
    /\ UNCHANGED <<histVars, pc, loc, libVars>>

\* The writer runs `state.back_index = state.back_index.min(capacity)`,
\* line 58.
WClamp ==
    /\ made' = made
    /\ sh.wpc = "clamp"
    /\ back_index' = Min(back_index, sh.wn)
    /\ UNCHANGED <<items, cap>>
    /\ sh' = NoteLived([sh EXCEPT !.wpc = "idle", !.wn = 0])
    /\ UNCHANGED <<histVars, pc, loc, libVars>>

\* The reader calls len(); `phys` is the physical length at that moment.
RdLen ==
    /\ sh.rpc # "read"
    /\ sh' = [sh EXCEPT !.seen = len, !.phys = Len(items)]
    /\ UNCHANGED <<pvVars, histVars, pc, loc, libVars>>

\* The reader enters get(ri): `if index < state.back_index`, line 86.
RdGetCheck ==
    /\ sh.rpc # "read"
    /\ sh' = IF sh.ri < back_index
             THEN [sh EXCEPT !.rpc = "read", !.ret = None]
             ELSE [sh EXCEPT !.rpc = "done", !.ret = None]
    /\ UNCHANGED <<pvVars, histVars, pc, loc, libVars>>

\* The reader runs `state.items.get(index)`, line 87.
RdGetRead ==
    /\ sh.rpc = "read"
    /\ sh' = [sh EXCEPT !.rpc = "done", !.ret = VecGet(items, sh.ri)]
    /\ UNCHANGED <<pvVars, histVars, pc, loc, libVars>>

NextShared ==
    \/ \E v \in Elem : WPushWrite(v)
    \/ \E f \in CopyFns : WPreallocWrite(f)
    \/ WIncr
    \/ WClear
    \/ \E n \in 0..MaxShLen : WResize(n)
    \/ WClamp
    \/ RdLen
    \/ RdGetCheck
    \/ RdGetRead

SpecShared == InitShared /\ [][NextShared]_vars

\* ========================================================= AveragingBuffer
\* src/collections/averaging_buffer.rs: a VecDeque<usize>, a capacity and a
\* running sum kept with saturating arithmetic.

\* usize::MAX
UsizeMax == 2 ^ UsizeBits - 1
Usize == 0..UsizeMax

\* usize::saturating_sub
saturating_sub(a, b) == IF a >= b THEN a - b ELSE 0

\* A wrapping addition in the place of the saturating one.
wrapping_add(a, b) == (a + b) % (UsizeMax + 1)

\* usize::saturating_add
saturating_add(a, b) == IF a + b > UsizeMax THEN UsizeMax ELSE a + b

\* Sum of a sequence of numbers, unbounded.
RECURSIVE SumSeq(_)
SumSeq(s) == IF s = <<>> THEN 0 ELSE Head(s) + SumSeq(Tail(s))

\* The last k elements of s (all of s when it is shorter).
LastK(s, k) == SubSeq(s, Len(s) - Min(Len(s), k) + 1, Len(s))

\* The PreallocatedVec of the other specifications, not in use.
PvIdle ==
    /\ with_capacity(0)
    /\ call = CallOf("with_capacity", TRUE, 0, "plain")
    /\ run = [kind |-> "fresh", vals |-> <<>>]
    /\ peak = 0
    /\ cut = FALSE
    /\ tainted = {}
    /\ pc = [t \in Threads |-> "idle"]
    /\ loc = [t \in Threads |-> [val |-> 0, idx |-> 0, slot |-> FALSE]]
    /\ sh = ShIdle(0)

\* AveragingBuffer::new(capacity); AveragingBuffer::default() is the same
\* value as new(0).
AvgNew(c) == [buffer |-> <<>>, capacity |-> c, sum |-> 0]

InitAvg ==
    /\ PvIdle
    /\ MapIdle
    /\ \E c \in 0..MaxAvgCap : ab = AvgNew(c)
    /\ abh = [pushed |-> <<>>, sat |-> FALSE]
    /\ io = [op |-> "none"]

\* push that evicts the oldest value and keeps it in the sum.
AvgPushed_no_sub(b, value) ==
    LET full    == Len(b.buffer) = b.capacity
        popped  == full /\ b.buffer # <<>>
        rest    == IF popped THEN Tail(b.buffer) ELSE b.buffer
    IN  [buffer   |-> Append(rest, value),
         capacity |-> b.capacity,
         sum      |-> saturating_add(b.sum, value)]

\* The buffer and the sum after AveragingBuffer::push(value) on b.
AvgPushed(b, value) ==
    LET full    == Len(b.buffer) = b.capacity
        popped  == full /\ b.buffer # <<>>
        rest    == IF popped THEN Tail(b.buffer) ELSE b.buffer
        sum1    == IF popped THEN saturating_sub(b.sum, Head(b.buffer))
                   ELSE b.sum
    IN  [buffer   |-> Append(rest, value),
         capacity |-> b.capacity,
         sum      |-> saturating_add(sum1, value)]

\* AveragingBuffer::push(value)
AvgPush(value) ==
    /\ Len(abh.pushed) < MaxAvgPushes
    /\ ab' = AvgPushed(ab, value)
    /\ abh' = [pushed |-> Append(abh.pushed, value),
               sat    |-> abh.sat \/ SumSeq(ab'.buffer) > UsizeMax]
    /\ UNCHANGED <<pvVars, histVars, raceVars, io, mapVars>>

\* AveragingBuffer::avg(): the quotient sum / len as a pair, or None.
avg == IF ab.buffer = <<>> THEN None
       ELSE Some([num |-> ab.sum, den |-> Len(ab.buffer)])

NextAvg == \E value \in Usize : AvgPush(value)

SpecAvg == InitAvg /\ [][NextAvg]_vars

\* ------------------------------------------------------- HashSet extensions
\* (src/collections/more_hashset.rs)
Keys == 1..MaxKey

\* The orders in which iterating a HashSet that holds S can yield its
\* elements: the order is unspecified, every element comes exactly once.
IterOrders(S) ==
    {f \in [1..Cardinality(S) -> S] : \A x \in S : \E i \in DOMAIN f : f[i] = x}

\* iterator.cloned().map(|item| DiffItem::tag(item))
MapDiffItem(tag, order) ==
    [i \in 1..Len(order) |-> [tag |-> tag, item |-> order[i]]]

LibInit ==
    /\ PvIdle
    /\ MapIdle
    /\ ab = AvgNew(0)
    /\ abh = [pushed |-> <<>>, sat |-> FALSE]

\* diff with Removed and Added exchanged.
diff_swapped_tags(self, other) ==
    {MapDiffItem("Same", s) \o MapDiffItem("Added", r) \o MapDiffItem("Removed", a) :
        s \in IterOrders(self \cap other),
        r \in IterOrders(self \ other),
        a \in IterOrders(other \ self)}

\* diff that takes the Added items from self.difference(other).
diff_added_from_self(self, other) ==
    {MapDiffItem("Same", s) \o MapDiffItem("Removed", r) \o MapDiffItem("Added", a) :
        s \in IterOrders(self \cap other),
        r \in IterOrders(self \ other),
        a \in IterOrders(self \ other)}

\* MoreHashSet::diff(self, other): the vectors it can return, one for each
\* iteration order of the three chained iterators.
diff(self, other) ==
    {MapDiffItem("Same", s) \o MapDiffItem("Removed", r) \o MapDiffItem("Added", a) :
        s \in IterOrders(self \cap other),
        r \in IterOrders(self \ other),
        a \in IterOrders(other \ self)}

\* The loop of drain_filter that does not put the other elements back.
RECURSIVE drain_loop_no_reinsert(_, _, _)
drain_loop_no_reinsert(original, predicate, st) ==
    IF original = <<>> THEN st
    ELSE LET item == Head(original)
             hit  == predicate[item]
             st1  == [self    |-> st.self,
                      removed |-> IF hit THEN st.removed \cup {item} ELSE st.removed,
                      evals   |-> [st.evals EXCEPT ![item] = @ + 1]]
         IN  drain_loop_no_reinsert(Tail(original), predicate, st1)

\* The loop of drain_filter over the taken set, in iteration order; st is
\* the set left in self, the removed set, and how many times the predicate
\* was called on each element.
RECURSIVE drain_loop(_, _, _)
drain_loop(original, predicate, st) ==
    IF original = <<>> THEN st
    ELSE LET item == Head(original)
             hit  == predicate[item]
             st1  == [self    |-> IF hit THEN st.self ELSE st.self \cup {item},
                      removed |-> IF hit THEN st.removed \cup {item} ELSE st.removed,
                      evals   |-> [st.evals EXCEPT ![item] = @ + 1]]
         IN  drain_loop(Tail(original), predicate, st1)

\* MoreHashSet::drain_filter(self, predicate) with the taken set iterated
\* as `original`: mem::take leaves self empty, then the loop runs.
drain_filter(original, predicate) ==
    drain_loop(original, predicate,
               [self |-> {}, removed |-> {}, evals |-> [k \in Keys |-> 0]])

InitSet ==
    /\ LibInit
    /\ \E a \in SUBSET Keys, b \in SUBSET Keys :
           io = [op |-> "sets", self |-> a, other |-> b]

\* let out = self.diff(&other)
SetDiff ==
    /\ io.op = "sets"
    /\ \E out \in diff(io.self, io.other) :
           io' = [op |-> "diff", self |-> io.self, other |-> io.other, out |-> out]
    /\ UNCHANGED <<pvVars, histVars, raceVars, ab, abh, mapVars>>

\* let removed = self.drain_filter(predicate)
SetDrainFilter ==
    /\ io.op = "sets"
    /\ \E predicate \in [Keys -> BOOLEAN], original \in IterOrders(io.self) :
           LET st == drain_filter(original, predicate)
           IN  io' = [op |-> "drain_filter", before |-> io.self,
                      predicate |-> predicate, self |-> st.self,
                      removed |-> st.removed, evals |-> st.evals]
    /\ UNCHANGED <<pvVars, histVars, raceVars, ab, abh, mapVars>>

NextSet == SetDiff \/ SetDrainFilter

SpecSet == InitSet /\ [][NextSet]_vars

\* ---------------------------------------------------------- inclusive ranges
\* (src/collections/more_range.rs)
Bounds == 0..MaxBound

\* start..=end
RangeInclusive(start, end) == [start |-> start, end |-> end]

\* The values an inclusive range contains.
RangeValues(r) == {x \in Bounds : r.start <= x /\ x <= r.end}

\* intersection that takes two ranges to overlap only when start < end.
intersection_strict(self, other) ==
    LET start == IF self.start > other.start THEN self.start ELSE other.start
        end   == IF self.end < other.end THEN self.end ELSE other.end
    IN  IF start < end THEN Some(RangeInclusive(start, end)) ELSE None

\* MoreRangeInclusive::intersection(self, other)
intersection(self, other) ==
    LET start == IF self.start > other.start THEN self.start ELSE other.start
        end   == IF self.end < other.end THEN self.end ELSE other.end
    IN  IF start <= end THEN Some(RangeInclusive(start, end)) ELSE None

InitRange ==
    /\ LibInit
    /\ \E s1 \in Bounds, e1 \in Bounds, s2 \in Bounds, e2 \in Bounds :
           io = [op |-> "ranges", self |-> RangeInclusive(s1, e1),
                 other |-> RangeInclusive(s2, e2)]

\* let out = self.intersection(&other); let rev = other.intersection(&self)
RangeIntersect ==
    /\ io.op = "ranges"
    /\ io' = [op |-> "intersection", self |-> io.self, other |-> io.other,
              out |-> intersection(io.self, io.other),
              rev |-> intersection(io.other, io.self)]
    /\ UNCHANGED <<pvVars, histVars, raceVars, ab, abh, mapVars>>

NextRange == RangeIntersect

SpecRange == InitRange /\ [][NextRange]_vars

\* ----------------------------------------------------------------------- Urn
\* (src/urn.rs)  Strings are sequences of one-character strings.
NidSet == {<<"e", "x">>, <<"E", "x">>, <<"E", "X">>, <<"e", "y">>}
NssSet == {<<"a">>, <<"A">>}
PathSet == {None, Some(<<"p">>), Some(<<"P">>)}
QuerySet == {None, Some(<<"q">>)}
FragmentSet == {None, Some(<<"f">>)}

Urns == [nid : NidSet, nss : NssSet, path : PathSet,
         query : QuerySet, fragment : FragmentSet]

\* char::to_lowercase on the letters the model uses.
LowerChar(c) ==
    CASE c = "E" -> "e"
      [] c = "X" -> "x"
      [] c = "A" -> "a"
      [] c = "P" -> "p"
      [] OTHER -> c

\* str::to_lowercase
to_lowercase(s) == [i \in 1..Len(s) |-> LowerChar(s[i])]

\* Urn::equals
equals(self, other) ==
    /\ to_lowercase(self.nid) = to_lowercase(other.nid)
    /\ self.nss = other.nss
    /\ self.path = other.path
    /\ self.query = other.query
    /\ self.fragment = other.fragment

\* Urn::normalize
normalize(self) ==
    [nid |-> to_lowercase(self.nid), nss |-> self.nss, path |-> self.path,
     query |-> self.query, fragment |-> self.fragment]

\* Urn::with_query
with_query(self, query) ==
    [nid |-> self.nid, nss |-> self.nss, path |-> self.path,
     query |-> query, fragment |-> self.fragment]

\* Urn::with_fragment
with_fragment(self, fragment) ==
    [nid |-> self.nid, nss |-> self.nss, path |-> self.path,
     query |-> self.query, fragment |-> fragment]

\* is_lexically_equivalent that normalises self only.
is_lexically_equivalent_half(self, other) ==
    LET norm_self  == normalize(self)
        norm_other == other
    IN  /\ norm_self.nid = norm_other.nid
        /\ norm_self.nss = norm_other.nss
        /\ norm_self.path = norm_other.path

\* Urn::is_lexically_equivalent
is_lexically_equivalent(self, other) ==
    LET norm_self  == normalize(self)
        norm_other == normalize(other)
    IN  /\ norm_self.nid = norm_other.nid
        /\ norm_self.nss = norm_other.nss
        /\ norm_self.path = norm_other.path

InitUrn ==
    /\ LibInit
    /\ \E u \in Urns, v \in Urns : io = [op |-> "urns", u |-> u, v |-> v]

\* let w = u.with_query(query).with_fragment(fragment), then the two
\* comparisons of u with v and the comparison of u with w.
UrnCompare ==
    /\ io.op = "urns"
    /\ \E query \in QuerySet, fragment \in FragmentSet :
           LET w == with_fragment(with_query(io.u, query), fragment)
           IN  io' = [op |-> "compared", u |-> io.u, v |-> io.v, w |-> w,
                      lex_uv |-> is_lexically_equivalent(io.u, io.v),
                      lex_vu |-> is_lexically_equivalent(io.v, io.u),
                      lex_uw |-> is_lexically_equivalent(io.u, w),
                      eq_uv  |-> equals(io.u, io.v)]
    /\ UNCHANGED <<pvVars, histVars, raceVars, ab, abh, mapVars>>

NextUrn == UrnCompare

SpecUrn == InitUrn /\ [][NextUrn]_vars

\* -------------------------------------------------------------------- VecMap
\* (src/collections/vecmap.rs)  A map kept as a Vec of (key, value) pairs
\* and searched with `==`; K is only PartialEq.

\* PartialEq::eq on keys: `*k == key`.
KeyEq(a, b) == a = b /\ a # KeyNaN

\* iter().position(|(k, _)| k == key): the first entry whose key equals
\* `key`, as a 1-based index, or 0 when there is none.
Position(els, key) ==
    LET hits == {i \in DOMAIN els : KeyEq(els[i][1], key)}
    IN  IF hits = {} THEN 0 ELSE CHOOSE i \in hits : \A j \in hits : i <= j

\* The element list after VecMap::insert(key, value).
VecMapInserted(els, key, value) ==
    LET pos == Position(els, key)
    IN  IF pos # 0
        THEN [els EXCEPT ![pos] = <<els[pos][1], value>>]
        ELSE Append(els, <<key, value>>)

\* The element list after VecMap::remove(key), and what it returns.
VecMapRemoved(els, key) ==
    LET pos == Position(els, key)
    IN  IF pos # 0
        THEN [elements |-> SubSeq(els, 1, pos - 1) \o SubSeq(els, pos + 1, Len(els)),
              ret      |-> Some(els[pos][2])]
        ELSE [elements |-> els, ret |-> None]

\* VecMap::get(key)
VecMapGet(key) ==
    LET pos == Position(elements, key)
    IN  IF pos = 0 THEN None ELSE Some(elements[pos][2])

\* VecMap::contains_key(key)
VecMapContainsKey(key) ==
    \E i \in DOMAIN elements : KeyEq(elements[i][1], key)

\* The keys VecMapIter::next yields over els, in order.
IterKeys(els) == [i \in DOMAIN els |-> els[i][1]]

InitMap ==
    /\ LibInit
    /\ io = [op |-> "none"]

\* VecMap::insert(key, value)
VecMapInsert(key, value) ==
    /\ Len(VecMapInserted(elements, key, value)) <= MaxMapLen
    /\ elements' = VecMapInserted(elements, key, value)
    /\ vmh' = [op |-> "insert", key |-> key, ret |-> None,
               was |-> vmh.ref[key], before |-> elements,
               ref |-> [vmh.ref EXCEPT ![key] = Some(value)]]
    /\ UNCHANGED <<pvVars, histVars, raceVars, ab, abh, io>>

\* VecMap::remove(key)
VecMapRemove(key) ==
    /\ LET r == VecMapRemoved(elements, key)
       IN  /\ elements' = r.elements
           /\ vmh' = [op |-> "remove", key |-> key, ret |-> r.ret,
                      was |-> vmh.ref[key], before |-> elements,
                      ref |-> [vmh.ref EXCEPT ![key] = None]]
    /\ UNCHANGED <<pvVars, histVars, raceVars, ab, abh, io>>

NextMap ==
    \/ \E key \in MapKeys, value \in MapVals : VecMapInsert(key, value)
    \/ \E key \in MapKeys : VecMapRemove(key)

SpecMap == InitMap /\ [][NextMap]_vars

\* ------------------------------------------------------------ properties
\* Indices the properties quantify over: every physical index and one past.
Indexes == 0..(MaxLen + 1)

\* C1: in every state reachable by one caller through with_capacity, push,
\* push_prealloc (succeeding or aborting), clear and set_capacity, the
\* logical length lies between 0 and the physical length of the store.
C1_LenWithinStore == 0 <= back_index /\ back_index <= Len(items)

\* A state where set_capacity has clamped the cursor of a full store.
C1_Witness ==
    /\ back_index = Len(items)
    /\ back_index > 0
    /\ back_index < peak
    /\ cut

\* C2: on a freshly constructed buffer of any initial capacity, after N
\* pushes and nothing else, len() is N and get(i) is the i-th pushed value
\* for every i < N.
C2_PushOrder ==
    run.kind = "fresh" =>
        /\ len = Len(run.vals)
        /\ \A i \in 0..(Len(run.vals) - 1) : get(i) = Some(run.vals[i + 1])

\* A fresh buffer that took three pushes, the last ones past its capacity.
C2_Witness ==
    /\ run.kind = "fresh"
    /\ Len(run.vals) = MaxLen
    /\ run.vals[1] # run.vals[2]
    /\ cap > MaxLen

\* Both racing pushes have returned.
AllDone == \A t \in Threads : pc[t] = "done"

\* Number of live slots (below the cursor and inside the store) holding v.
LiveCount(v) ==
    Cardinality({i \in 1..Min(back_index, Len(items)) : items[i] = v})

\* Number of racing pushes that pushed v.
PushedCount(v) == Cardinality({t \in Threads : loc[t].val = v})

\* The invariants of the data model are broken: the cursor is past the
\* store, or the live slots do not hold every pushed value.
Corrupted ==
    \/ back_index > Len(items)
    \/ \E v \in Elem : LiveCount(v) < PushedCount(v)

\* C3: two unsynchronised pushes can break the invariants.  Whenever both
\* pushes looked up the same cursor value and at least one of them found a
\* slot there, the state they leave behind is corrupted (the pushed values
\* being other than the blank, which no reader can tell from a slot that was
\* never written).
C3_RaceCorrupts ==
    (/\ AllDone
     /\ loc[1].idx = loc[2].idx
     /\ (loc[1].slot \/ loc[2].slot)
     /\ \A t \in Threads : loc[t].val # creation_fn)
        => Corrupted

\* Both pushes returned and the cursor is past the end of the store.
C3_Witness ==
    /\ AllDone
    /\ back_index > Len(items)
    /\ loc[1].val # loc[2].val

\* C4: get(i) and get_mut(i) are absent for every index i >= len(), stale
\* physical slots and the index equal to the physical length included.
C4_AbsentBeyondLen ==
    \A i \in Indexes : i >= len => (get(i) = None /\ get_mut(i) = None)

\* A state with a stale slot that holds a pushed (non-blank) element.
C4_Witness ==
    /\ back_index < Len(items)
    /\ items[back_index + 1] # creation_fn
    /\ back_index > 0

\* C5: after clear() followed by k pushes, get(i) is the i-th value pushed
\* since the clear for i < k, and is absent for every other index: nothing
\* pushed before the clear is observable.
C5_NothingStaleObservable ==
    run.kind = "cleared" =>
        \A i \in Indexes :
            get(i) = IF i < Len(run.vals) THEN Some(run.vals[i + 1]) ELSE None

\* One push after a clear, with two older elements still in their slots.
C5_Witness ==
    /\ run.kind = "cleared"
    /\ Len(run.vals) = 1
    /\ Len(items) = 3
    /\ items[2] # creation_fn
    /\ items[3] # creation_fn
    /\ items[1] # items[2]

\* C6: clear() sets len() to 0 and changes nothing else: capacity(), the
\* physical length and the content of every physical slot stay the same.
C6_ClearFrame ==
    [][clear => (len' = 0 /\ capacity' = capacity /\ raw_slice' = raw_slice)]_vars

\* The state right after a clear of a buffer that held pushed elements.
C6_Witness ==
    /\ run.kind = "cleared"
    /\ run.vals = <<>>
    /\ back_index = 0
    /\ peak >= 2
    /\ \E i \in 1..Len(items) : items[i] # creation_fn

\* C7 as stated: after a clear, a push that stays within the peak len()
\* reached before it changes neither capacity() nor the physical length.
C7_ReuseWithinPeak_Original ==
    [][\A v \in Elem :
          (push(v) /\ run.kind = "cleared" /\ Len(run.vals) < peak)
              => (capacity' = capacity /\ Len(raw_slice') = Len(raw_slice))]_vars

\* C7, amended: after a clear, a push that stays within the peak len()
\* reached before it changes neither capacity() nor the physical length,
\* provided no set_capacity(n) with n below that peak was called since the
\* peak was last reached.
C7_ReuseWithinPeak ==
    [][\A v \in Elem :
          (push(v) /\ run.kind = "cleared" /\ Len(run.vals) < peak /\ ~cut)
              => (capacity' = capacity /\ Len(raw_slice') = Len(raw_slice))]_vars

\* After a clear, as many pushes as the peak, in a store of exactly the peak.
C7_Witness ==
    /\ run.kind = "cleared"
    /\ Len(run.vals) = peak
    /\ peak >= 2
    /\ ~cut
    /\ Len(items) = peak

\* C8 as stated: a push made when len() equals capacity() grows capacity()
\* by exactly one.
C8_GrowsByOne ==
    [][\A v \in Elem :
          (push(v) /\ len = capacity) => capacity' = capacity + 1]_vars

\* C9 as stated: capacity() is the physical length of the store, the number
\* of slots of raw_slice().
C9_CapacityIsPhysicalLength == capacity = Len(raw_slice)

\* C10 as stated: with len() > 0, last() and last_mut() are the element
\* get(len() - 1); with len() = 0 they are absent.
C10_LastIsGetLenMinusOne ==
    IF len > 0
    THEN last = get(len - 1) /\ last_mut = get(len - 1)
    ELSE last = None /\ last_mut = None

\* C11 as stated: on a buffer with len() = 0 last() and last_index() are
\* absent; after one push onto such a buffer last_index() is Some(0) and
\* last() is the element at index 0, the value just pushed.
C11_LastOfEmptyAndOfOne ==
    /\ len = 0 => (last = None /\ last_index = None)
    /\ (/\ call.op = "push"
        /\ run.kind \in {"fresh", "cleared"}
        /\ Len(run.vals) = 1)
           => (/\ last_index = Some(0)
               /\ last = get(0)
               /\ last = Some(run.vals[1]))

\* C12: a push_prealloc whose callback returns failure, with a stale slot
\* at hand or with the store exhausted, leaves len(), the physical length
\* and get(i) for every i < len() as they were; so does any number of them.
C12_AbortKeepsLiveContent ==
    [][\A f \in CopyFns :
          (push_prealloc(f) /\ ~f.ok)
              => (/\ len' = len
                  /\ Len(raw_slice') = Len(raw_slice)
                  /\ \A i \in Indexes : i < len => get(i)' = get(i))]_vars

\* An aborted push_prealloc has written into the stale slot behind two live
\* elements.
C12_Witness ==
    /\ call.op = "push_prealloc"
    /\ ~call.ok
    /\ back_index \in tainted
    /\ back_index = 2

\* C13 as stated: when the callback reports failure the whole buffer is as
\* before the call: logical length, physical length and every physical slot.
C13_AbortChangesNothing_Original ==
    [][\A f \in CopyFns :
          (push_prealloc(f) /\ ~f.ok)
              => (len' = len /\ raw_slice' = raw_slice)]_vars

\* C13, amended: when the callback reports failure, the logical length, the
\* physical length and every physical slot other than the stale slot at
\* index len() are as before the call; that slot, when there is one, holds
\* what the callback made of the element it was handed.
C13_AbortChangesStaleSlotOnly ==
    [][\A f \in CopyFns :
          (push_prealloc(f) /\ ~f.ok)
              => (/\ len' = len
                  /\ Len(raw_slice') = Len(raw_slice)
                  /\ \A i \in 1..Len(raw_slice) :
                        raw_slice'[i] = IF i = len + 1
                                        THEN copy_fn(f, raw_slice[i])
                                        ELSE raw_slice[i])]_vars

\* An aborted push_prealloc has left a non-blank element in the stale slot
\* of a store that also holds a stale slot behind it.
C13_Witness ==
    /\ call.op = "push_prealloc"
    /\ ~call.ok
    /\ back_index \in tainted
    /\ back_index + 1 < Len(items)
    /\ items[back_index + 1] # creation_fn

\* C14 as stated: what an aborted callback wrote into a slot is discarded
\* by the next push or successful push_prealloc into that slot: the element
\* made live is the pushed value, respectively what the callback makes of a
\* blank element.
C14_AbortedWriteDiscarded_Original ==
    [][(back_index \in tainted) =>
          /\ \A v \in Elem :
                push(v) => raw_slice'[back_index + 1] = v
          /\ \A f \in CopyFns :
                (push_prealloc(f) /\ f.ok)
                    => raw_slice'[back_index + 1] = copy_fn(f, creation_fn)]_vars

\* C14, amended: what an aborted callback wrote into a slot is discarded by
\* the next push into that slot, and by the next successful push_prealloc
\* into it whose callback overwrites the element; a successful callback that
\* leaves the element as it found it makes the aborted write live.
C14_AbortedWriteDiscarded ==
    [][(back_index \in tainted) =>
          /\ \A v \in Elem :
                push(v) => raw_slice'[back_index + 1] = v
          /\ \A f \in CopyFns :
                (push_prealloc(f) /\ f.ok) =>
                    raw_slice'[back_index + 1] =
                        IF f.w # -1 THEN copy_fn(f, creation_fn)
                        ELSE raw_slice[back_index + 1]]_vars

\* A push has just made live a slot that an aborted callback had written.
C14_Witness ==
    /\ call.op = "push"
    /\ call.how = "tainted"
    /\ back_index >= 1
    /\ raw_slice[back_index] = call.arg

\* C15: push_prealloc with a callback that writes v and returns success is
\* push(v): from every state the two lead to the same buffer state, hence to
\* the same len() and the same get(i), after every step of any sequence.
C15_PushPreallocIsPush ==
    [][\A v \in Elem :
          push_prealloc_state([w |-> v, ok |-> TRUE]) <=> push_state(v)]_vars

\* A successful push_prealloc has grown the store with a non-blank element.
C15_Witness ==
    /\ call.op = "push_prealloc"
    /\ call.ok
    /\ back_index = Len(items)
    /\ back_index >= 2
    /\ cap > back_index
    /\ items[back_index] # creation_fn

\* C16 as stated: the result of the push_prealloc call tells its caller
\* whether the element was appended or the push aborted: two calls with the
\* same result had the same outcome.
C16_ResultTellsOutcome ==
    [][(/\ call.op = "push_prealloc"
        /\ call'.op = "push_prealloc"
        /\ call'.ret = call.ret)
           => call'.ok = call.ok]_vars

\* C17: push(value) adds exactly one to the logical length; with a slot at
\* index len() the slot takes value and the physical length stays, without
\* one value is appended and the physical length grows by exactly one.
C17_PushStep ==
    [][\A v \in Elem :
          push(v) =>
              /\ len' = len + 1
              /\ IF VecGet(raw_slice, len) # None
                 THEN /\ Len(raw_slice') = Len(raw_slice)
                      /\ raw_slice'[len + 1] = v
                 ELSE /\ Len(raw_slice') = Len(raw_slice) + 1
                      /\ raw_slice'[Len(raw_slice) + 1] = v]_vars

\* After a clear, one push reused a slot and the next one grew the store.
C17_Witness ==
    /\ call.op = "push"
    /\ run.kind = "cleared"
    /\ Len(run.vals) = 2
    /\ Len(items) = 2
    /\ cap = MinNonZeroCap
    /\ peak = 2

\* C18: set_capacity(n) with n below the physical length truncates the store
\* to n slots, makes the logical length min(len(), n), keeps get(i) for every
\* i below that, and drops the elements at indices >= n for good: they are
\* absent, and a later set_capacity that grows the store neither raises the
\* logical length nor brings them back, the new slots being blank.
C18_ShrinkDrops ==
    [][\A n \in 0..MaxLen :
          set_capacity(n) =>
              /\ n < Len(raw_slice) =>
                    /\ Len(raw_slice') = n
                    /\ len' = Min(len, n)
                    /\ \A i \in Indexes : i < Min(len, n) => get(i)' = get(i)
                    /\ \A i \in Indexes : i >= n => get(i)' = None
              /\ n > Len(raw_slice) =>
                    /\ len' = len
                    /\ \A i \in Indexes :
                          (Len(raw_slice) <= i /\ i < n)
                              => VecGet(raw_slice', i) = Some(creation_fn)]_vars

\* set_capacity has just cut live elements off a buffer.
C18_Witness ==
    /\ call.op = "set_capacity"
    /\ call.how = "dropped"
    /\ call.arg >= 1
    /\ back_index = call.arg
    /\ Len(items) = call.arg

\* C19: set_capacity(n) with n above the physical length leaves the logical
\* length and every existing slot, live or stale, as it was at its index, and
\* fills exactly the new slots, from the old physical length up to n, with
\* elements of the factory.
C19_GrowFrame ==
    [][\A n \in 0..MaxLen :
          (set_capacity(n) /\ n > Len(raw_slice)) =>
              /\ len' = len
              /\ Len(raw_slice') = n
              /\ \A i \in 1..n :
                    raw_slice'[i] = IF i <= Len(raw_slice) THEN raw_slice[i]
                                    ELSE creation_fn]_vars

\* set_capacity has just grown a store that holds a live and a stale
\* non-blank element.
C19_Witness ==
    /\ call.op = "set_capacity"
    /\ call.how = "grown"
    /\ back_index = 1
    /\ Len(items) = 3
    /\ items[1] # creation_fn
    /\ items[2] # creation_fn
    /\ items[3] = creation_fn

\* C20: with_capacity(capacity, factory) gives a buffer with len() = 0, a
\* store of exactly capacity slots that each hold an element of the factory,
\* and get(i) absent for every i.
C20_WithCapacity ==
    call.op = "with_capacity" =>
        /\ len = 0
        /\ Len(raw_slice) = call.arg
        /\ \A i \in 1..Len(raw_slice) : raw_slice[i] = creation_fn
        /\ \A i \in Indexes : get(i) = None

\* The buffer as with_capacity(MaxLen, factory) returns it.
C20_Witness ==
    /\ call.op = "with_capacity"
    /\ call.arg = MaxLen
    /\ Len(items) = MaxLen

\* C21: raw_slice() is a view of the whole physical store, not of the live
\* content: it has as many slots as the store, never fewer than len(), and
\* after clear() it still shows, at their indices, the elements pushed before
\* the clear although len() is 0.
C21_RawSliceShowsStore ==
    [][/\ Len(raw_slice') = Len(items')
       /\ Len(raw_slice') >= len'
       /\ (clear /\ run.kind # "other") =>
              /\ len' = 0
              /\ \A i \in 1..Len(run.vals) : raw_slice'[i] = run.vals[i]]_vars

\* Right after a clear: len() is 0 and raw_slice() shows two pushed elements.
C21_Witness ==
    /\ call.op = "clear"
    /\ len = 0
    /\ Len(raw_slice) >= 2
    /\ raw_slice[1] # creation_fn
    /\ raw_slice[2] # creation_fn
    /\ raw_slice[1] # raw_slice[2]

\* C22 as stated: an AveragingBuffer created with capacity c, 0 included,
\* holds at most c values, the most recent min(n, c) of the n pushed ones, in
\* push order.
C22_FixedCapacity ==
    /\ Len(ab.buffer) <= ab.capacity
    /\ ab.buffer = LastK(abh.pushed, ab.capacity)

\* C23 as stated: avg() is None exactly when no value is held, and the
\* stored sum is the sum of the held values in every state.
C23_SumOfHeld_Original ==
    /\ avg = None <=> ab.buffer = <<>>
    /\ ab.sum = SumSeq(ab.buffer)

\* C23, amended: avg() is None exactly when no value is held, and otherwise
\* the quotient of the stored sum by the number of held values; the stored
\* sum is the sum of the held values as long as the sum of the held values
\* has never exceeded usize::MAX.
C23_SumOfHeld ==
    /\ avg = None <=> ab.buffer = <<>>
    /\ ab.buffer # <<>> =>
           avg = Some([num |-> ab.sum, den |-> Len(ab.buffer)])
    /\ ~abh.sat => ab.sum = SumSeq(ab.buffer)

\* A buffer that has evicted a non-zero value and never saturated.
C23_Witness ==
    /\ ~abh.sat
    /\ ab.capacity >= 2
    /\ Len(ab.buffer) = ab.capacity
    /\ Len(abh.pushed) > ab.capacity
    /\ abh.pushed[1] > 0
    /\ ab.sum > 0

\* C24: push updates the sum with saturating arithmetic, to
\* min(MAX, max(0, sum - evicted) + value); the sum stays within 0..MAX, a
\* buffer that holds nothing but MAX has the sum MAX, and a push of 1 that
\* evicts one MAX from it leaves the sum 1.
C24_SaturatingSum ==
    [][\A value \in Usize :
          AvgPush(value) =>
              LET evicts  == Len(ab.buffer) = ab.capacity /\ ab.buffer # <<>>
                  evicted == IF evicts THEN Head(ab.buffer) ELSE 0
              IN  /\ ab'.sum = Min(UsizeMax, Max(0, ab.sum - evicted) + value)
                  /\ ab'.sum \in Usize
                  /\ (\A i \in 1..Len(ab'.buffer) : ab'.buffer[i] = UsizeMax)
                        => ab'.sum = UsizeMax
                  /\ (ab.sum = UsizeMax /\ evicted = UsizeMax /\ value = 1)
                        => ab'.sum = 1]_vars

\* MAX was pushed until the buffer was full, then a 1 evicted one of them.
C24_Witness ==
    /\ ab.capacity >= 2
    /\ Len(ab.buffer) = ab.capacity
    /\ \A i \in 1..(ab.capacity - 1) : ab.buffer[i] = UsizeMax
    /\ ab.buffer[ab.capacity] = 1
    /\ abh.pushed[1] = UsizeMax
    /\ Len(abh.pushed) = ab.capacity + 1
    /\ ab.sum = 1

\* The items a diff vector carries under one tag.
Items(tag, v) == {v[i].item : i \in {j \in DOMAIN v : v[j].tag = tag}}

\* C25: diff(self, other) returns exactly one DiffItem for each element of
\* the union of the two sets, Same when the element is in both, Removed when
\* it is in self only, Added when it is in other only; the vector is as long
\* as the union is large.
C25_DiffCoversUnion ==
    io.op = "diff" =>
        LET out   == io.out
            union == io.self \cup io.other
        IN  /\ Len(out) = Cardinality(union)
            /\ \A x \in union :
                   Cardinality({i \in DOMAIN out : out[i].item = x}) = 1
            /\ \A i \in DOMAIN out :
                   /\ out[i].item \in union
                   /\ out[i].tag = "Same" <=> out[i].item \in io.self \cap io.other
                   /\ out[i].tag = "Removed" <=> out[i].item \in io.self \ io.other
                   /\ out[i].tag = "Added" <=> out[i].item \in io.other \ io.self

\* A diff whose vector carries all three kinds of item.
C25_Witness ==
    /\ io.op = "diff"
    /\ \E i, j, k \in DOMAIN io.out :
           /\ io.out[i].tag = "Same"
           /\ io.out[j].tag = "Removed"
           /\ io.out[k].tag = "Added"

\* C26: a.diff(b) and b.diff(a) have the same length and the same Same
\* items, and the Added items of one are the Removed items of the other.
C26_DiffMirrored ==
    io.op = "diff" =>
        \A rev \in diff(io.other, io.self) :
            /\ Len(rev) = Len(io.out)
            /\ Items("Same", rev) = Items("Same", io.out)
            /\ Items("Added", rev) = Items("Removed", io.out)
            /\ Items("Removed", rev) = Items("Added", io.out)

\* Two sets that share an element and have one of their own each, so that
\* the two diffs are different vectors.
C26_Witness ==
    /\ io.op = "diff"
    /\ Items("Same", io.out) # {}
    /\ Items("Removed", io.out) # {}
    /\ Items("Added", io.out) # {}
    /\ \A rev \in diff(io.other, io.self) : rev # io.out

\* C27: drain_filter(predicate) partitions the set: the returned set holds
\* the elements for which the predicate is true, the set keeps those for
\* which it is false, the two are disjoint and their union is the original
\* set; the predicate is evaluated exactly once for each element.
C27_DrainFilterPartitions ==
    io.op = "drain_filter" =>
        /\ io.removed = {x \in io.before : io.predicate[x]}
        /\ io.self = {x \in io.before : ~io.predicate[x]}
        /\ io.removed \cap io.self = {}
        /\ io.removed \cup io.self = io.before
        /\ \A k \in Keys : io.evals[k] = IF k \in io.before THEN 1 ELSE 0

\* A drain_filter that removed some elements and kept some.
C27_Witness ==
    /\ io.op = "drain_filter"
    /\ Cardinality(io.before) >= 3
    /\ io.removed # {}
    /\ io.self # {}

\* C28: for inclusive integer ranges, a.intersection(b) is
\* Some(max(starts)..=min(ends)) when some value is in both and None
\* otherwise; the result contains exactly the values that are in both;
\* ranges that touch in one point give the range of that point; the
\* operation is commutative.
C28_RangeIntersection ==
    io.op = "intersection" =>
        LET a    == io.self
            b    == io.other
            both == RangeValues(a) \cap RangeValues(b)
        IN  /\ both # {} =>
                   io.out = Some(RangeInclusive(Max(a.start, b.start),
                                                Min(a.end, b.end)))
            /\ both = {} => io.out = None
            /\ io.out # None => RangeValues(io.out[1]) = both
            /\ (a.start <= a.end /\ a.end = b.start /\ b.start <= b.end) =>
                   io.out = Some(RangeInclusive(a.end, a.end))
            /\ io.out = io.rev

\* Two ranges of more than one value that touch in one point.
C28_Witness ==
    /\ io.op = "intersection"
    /\ io.self.start < io.self.end
    /\ io.self.end = io.other.start
    /\ io.other.start < io.other.end
    /\ io.out = Some(RangeInclusive(io.self.end, io.self.end))

\* C29: is_lexically_equivalent is an equivalence relation that compares
\* nid without regard to case and nss and path exactly, and ignores query
\* and fragment, so that u is equivalent to u.with_query(q).with_fragment(f);
\* equals requires the same and equal query and fragment.
C29_LexicalEquivalence ==
    io.op = "compared" =>
        LET u == io.u
            v == io.v
        IN  /\ is_lexically_equivalent(u, u)
            /\ io.lex_uv = io.lex_vu
            /\ \A x \in Urns :
                   (io.lex_uv /\ is_lexically_equivalent(v, x))
                       => is_lexically_equivalent(u, x)
            /\ io.lex_uv <=> /\ to_lowercase(u.nid) = to_lowercase(v.nid)
                             /\ u.nss = v.nss
                             /\ u.path = v.path
            /\ io.lex_uw
            /\ io.eq_uv <=> /\ io.lex_uv
                            /\ u.query = v.query
                            /\ u.fragment = v.fragment

\* Two URNs whose nid differ in case only and whose queries differ:
\* equivalent, not equal; and a third with another query and fragment.
C29_Witness ==
    /\ io.op = "compared"
    /\ io.u.nid # io.v.nid
    /\ io.u.query # io.v.query
    /\ io.lex_uv
    /\ ~io.eq_uv
    /\ io.w.query # io.u.query
    /\ io.w.fragment # io.u.fragment

\* C30: last() and last_mut() read the slot at (physical length - 1), not
\* at (len() - 1): they return an element whenever the store has a slot,
\* even when len() is 0, and it is the slot get(len() - 1) reads only when
\* len() equals the physical length.
C30_LastReadsPhysicalEnd ==
    /\ last = VecGet(raw_slice, Len(raw_slice) - 1)
    /\ last_mut = VecGet(raw_slice, Len(raw_slice) - 1)
    /\ Len(raw_slice) > 0 => (last # None /\ last_mut # None)
    /\ Len(raw_slice) = 0 => (last = None /\ last_mut = None)
    /\ (len = Len(raw_slice) /\ len > 0) =>
           (last = get(len - 1) /\ last_mut = get_mut(len - 1))

\* Nothing live, a stale pushed element in the last slot: last() returns it.
C30_Witness ==
    /\ len = 0
    /\ Len(raw_slice) > 0
    /\ last # None
    /\ last # Some(creation_fn)
    /\ get(0) = None

\* C31 as stated: with one writer and a reader whose steps interleave, every
\* element the reader's get(i) returns was live at index i at some time, and
\* the logical length the reader observes is never greater than the physical
\* length.
C31_ReaderSeesLiveContent ==
    /\ (sh.rpc = "done" /\ sh.ret # None) => sh.ret[1] \in sh.lived
    /\ sh.seen <= sh.phys

\* C32 as stated: the factory is invoked when the store grows and at no
\* other time: with_capacity(c) invokes it c times and every operation
\* invokes it once for each slot it adds to the store, a push past capacity
\* included.
C32_FactoryOnGrowth_Original ==
    [][/\ call.op = "with_capacity" => made = call.arg
       /\ made' = Max(0, Len(items') - Len(items))]_vars

\* C32, amended: with_capacity(c) invokes the factory exactly c times and
\* set_capacity(n) exactly max(0, n - physical length) times; push_prealloc
\* invokes it exactly once when there is no slot at index len(), whether or
\* not the callback then succeeds, and not at all when it reuses a slot;
\* push, which stores the element it is given, and clear never invoke it.
C32_FactoryOnGrowth ==
    [][/\ call.op = "with_capacity" => made = call.arg
       /\ \A n \in 0..MaxLen :
              set_capacity(n) => made' = Max(0, n - Len(items))
       /\ \A f \in CopyFns :
              push_prealloc(f) =>
                  made' = IF back_index < Len(items) THEN 0 ELSE 1
       /\ \A v \in Elem : push(v) => made' = 0
       /\ clear => made' = 0]_vars

\* A push_prealloc past the end of the store whose callback aborted: the
\* factory was invoked once and the store did not grow.
C32_Witness ==
    /\ call.op = "push_prealloc"
    /\ ~call.ok
    /\ made = 1
    /\ len = Len(raw_slice)

\* C33: push and a successful push_prealloc change only the slot at index
\* (old len()) and the cursor: the store keeps its length or grows by that
\* one slot, every other physical slot, live or stale, keeps its content at
\* its index, and get(i) is unchanged for every i below the old len().
C33_PushFrame ==
    [][((\E v \in Elem : push(v)) \/ (\E f \in CopyFns : f.ok /\ push_prealloc(f)))
          => /\ len' = len + 1
             /\ Len(raw_slice') = Max(Len(raw_slice), len + 1)
             /\ \A i \in 0..(Len(raw_slice) - 1) :
                    i # len => VecGet(raw_slice', i) = VecGet(raw_slice, i)
             /\ \A i \in 0..(len - 1) : get(i)' = get(i)]_vars

\* A push that reused the slot in the middle of a store of three: a live
\* element before it, a stale pushed element after it.
C33_Witness ==
    /\ call.op = "push"
    /\ len = 2
    /\ Len(raw_slice) = 3
    /\ raw_slice[1] # creation_fn
    /\ raw_slice[3] # creation_fn
    /\ raw_slice[2] # raw_slice[1]

\* C34 as stated: under any sequence of insert and remove the VecMap is a
\* finite map: no key occurs twice in the element list, get(k) is the value
\* of the last insert of k that no remove of k followed and None otherwise,
\* contains_key(k) agrees with get(k), remove(k) returns that value and
\* leaves k absent, and an insert on a key that is present leaves the
\* iteration order of the keys as it was.
C34_FiniteMap ==
    /\ \A i, j \in DOMAIN elements :
           i # j => elements[i][1] # elements[j][1]
    /\ \A k \in MapKeys :
           /\ VecMapGet(k) = vmh.ref[k]
           /\ VecMapContainsKey(k) <=> VecMapGet(k) # None
    /\ vmh.op = "remove" =>
           (vmh.ret = vmh.was /\ VecMapGet(vmh.key) = None)
    /\ (vmh.op = "insert" /\ vmh.was # None) =>
           IterKeys(elements) = IterKeys(vmh.before)

====
